---- MODULE Spec2Model ----
(***************************************************************************)
(* WebWatch: the monitoring engine of src/ai/flows/monitorWebsites.ts.     *)
(*                                                                         *)
(* The store (Firestore collection "websites" and the settings document),  *)
(* the clock, and a fixed set of server-side tasks.  Each task runs either *)
(* a bulk cycle (monitorAllWebsites) or a forced check                     *)
(* (monitorSingleWebsite); a task advances one await at a time, so steps   *)
(* of different tasks interleave exactly where the JavaScript code awaits. *)
(* The outside world (the fetched page, the judgment service, the Telegram *)
(* API, the success of a Firestore write) is chosen nondeterministically.  *)
(***************************************************************************)
EXTENDS Integers, Sequences, FiniteSets, TLC

VARIABLES store, settings, clock, tasks, runs, scope, outbox

vars == <<store, settings, clock, tasks, runs, scope, outbox>>

----------------------------------------------------------------------------
(* Bounds of the model *)

\* the clock takes the values TickMillis, 2*TickMillis, ... MaxTicks*TickMillis
MaxTicks == 3

\* one tick of the model clock: half a minute, in milliseconds
TickMillis == 30 * 1000

\* document ids of the websites collection, in the order a collection read
\* returns them
IdOrder == <<"w1", "w2">>
Ids == {IdOrder[i] : i \in 1..Len(IdOrder)}

\* the slots of the server-side invocations, in the order they are taken
TaskOrder == <<"t1", "t2">>
Tasks == {TaskOrder[i] : i \in 1..Len(TaskOrder)}

\* how many invocations (bulk cycles and forced checks) a behaviour starts
MaxRuns == 2
MaxRunsOne == 4
MaxRunsRace == 2
MaxRunsText == 2
MaxRunsChange == 3

----------------------------------------------------------------------------
(* Strings.  A string is a sequence of tokens; a token is a tag or a run   *)
(* of n equal text characters, and counts n characters.                    *)

Open(tag, id, cls) == [k |-> "open", tag |-> tag, id |-> id, cls |-> cls, n |-> 1]
Close(tag) == [k |-> "close", tag |-> tag, id |-> "", cls |-> "", n |-> 1]
Text(c, n) == [k |-> "text", tag |-> c, id |-> "", cls |-> "", n |-> n]

EmptyString == << >>

RECURSIVE StrLen(_)
StrLen(s) == IF s = << >> THEN 0 ELSE Head(s).n + StrLen(Tail(s))

\* String.prototype.substring(0, limit)
RECURSIVE Substring(_, _)
Substring(s, limit) ==
  IF s = << >> \/ limit <= 0 THEN << >>
  ELSE IF Head(s).n <= limit
       THEN <<Head(s)>> \o Substring(Tail(s), limit - Head(s).n)
       ELSE <<[Head(s) EXCEPT !.n = limit]>>

\* the bound both prompts cut their content at
PromptLimit == 8000

----------------------------------------------------------------------------
(* extractContentBySelector *)

\* a selector is the sequence of its symbols: none, "#" id, "." class, a tag
\* name, or one the selector engine rejects
NoSelector == << >>
BadSelector == <<"[">>
\* the selectors the add form is given
Selectors == {<<"#", "board">>}

\* the selectors of the scenario about extraction: none, by id, by class, by
\* tag name, and one the engine rejects
TextSelectors ==
  {NoSelector, BadSelector, <<"#", "board">>, <<".", "notice">>, <<"p">>, <<"span">>}

\* querySelector throws on a selector it cannot compile
SelectorThrows(selector) == selector = BadSelector

Matches(tok, selector) ==
  /\ tok.k = "open"
  /\ IF Head(selector) = "#" THEN Len(selector) = 2 /\ tok.id = selector[2]
     ELSE IF Head(selector) = "." THEN Len(selector) = 2 /\ tok.cls = selector[2]
     ELSE tok.tag = Head(selector)

\* index of the first element, in document order, the selector matches; 0 if none
querySelector(html, selector) ==
  LET hits == {i \in 1..Len(html) : Matches(html[i], selector)}
  IN IF hits = {} THEN 0 ELSE CHOOSE i \in hits : \A j \in hits : i <= j

\* index of the close tag that ends the element opened before position j
\* (depth counts the elements open at j); Len(html)+1 when the element is
\* never closed and the tolerant parser closes it at the end of input
RECURSIVE MatchClose(_, _, _)
MatchClose(html, j, depth) ==
  IF j > Len(html) THEN j
  ELSE IF html[j].k = "open" THEN MatchClose(html, j + 1, depth + 1)
  ELSE IF html[j].k = "close"
       THEN IF depth = 1 THEN j ELSE MatchClose(html, j + 1, depth - 1)
  ELSE MatchClose(html, j + 1, depth)

innerHTML(html, i) == SubSeq(html, i + 1, MatchClose(html, i + 1, 1) - 1)

\* faulty variant: a selector that matches nothing yields the empty string
extractContentBySelectorEmptyOnMiss(html, selector) ==
  IF selector = NoSelector THEN html
  ELSE IF SelectorThrows(selector) THEN html
  ELSE LET i == querySelector(html, selector)
       IN IF i # 0 THEN innerHTML(html, i) ELSE EmptyString

extractContentBySelector(html, selector) ==
  IF selector = NoSelector THEN html
  ELSE IF SelectorThrows(selector) THEN html
  ELSE LET i == querySelector(html, selector)
       IN IF i # 0 THEN innerHTML(html, i) ELSE html

----------------------------------------------------------------------------
(* The pages a fetch may return *)

PageA == <<Open("div", "board", ""), Text("A", 1), Close("div"),
           Open("div", "", ""), Text("Y", 1), Close("div")>>
PageB == <<Open("div", "board", ""), Text("B", 1), Close("div"),
           Open("div", "", ""), Text("Y", 1), Close("div")>>
PageEmptyBoard == <<Open("div", "board", ""), Close("div")>>

Pages == {PageA, PageB, PageEmptyBoard}

\* two pages whose board differs only after the first PromptLimit characters,
\* and one with elements of the same name inside each other
PageLongX == <<Open("div", "board", "notice"), Text("A", PromptLimit), Text("X", 1),
               Close("div"), Open("p", "", ""), Text("D", 1), Close("p")>>
PageLongY == <<Open("div", "board", "notice"), Text("A", PromptLimit), Text("Y", 1),
               Close("div"), Open("p", "", ""), Text("D", 1), Close("p")>>
PageNested == <<Open("div", "", "notice"), Text("A", 1),
                Open("div", "board", ""), Text("B", 1),
                Open("div", "", ""), Text("C", 1), Close("div"), Close("div"),
                Text("E", 1), Close("div")>>

TextPages == {PageLongX, PageLongY, PageNested}

----------------------------------------------------------------------------
(* Values *)

\* Timestamp.fromMillis(0), the "never checked" sentinel of a new website
EpochZero == 0

\* the check intervals (minutes) the add form is given
Intervals == {1}

\* what the settings form may save
SavedSettings ==
  {[exists |-> TRUE, botToken |-> b, chatId |-> c] :
     b \in {"token"}, c \in {"", "chat"}}

\* getTelegramSettings() of a settings document that does not exist: null
NoSettings == [exists |-> FALSE, botToken |-> "", chatId |-> ""]

\* a summary the judgment left out (undefined)
NoSummary == "undefined"

\* what a prompt may answer: output is null, or {flag, summary?}
PromptOutputs ==
  {[null |-> TRUE, flag |-> FALSE, summary |-> NoSummary]} \cup
  {[null |-> FALSE, flag |-> f, summary |-> s] :
     f \in BOOLEAN, s \in {NoSummary, "", "S"}}

\* JavaScript truthiness of output.summary
Truthy(summary) == summary # NoSummary /\ summary # ""

NoWebsite ==
  [id |-> "none", checkInterval |-> 0, selector |-> NoSelector, status |-> "inactive",
   lastChecked |-> EpochZero, lastContent |-> EmptyString, lastUpdated |-> EpochZero,
   lastChangeSummary |-> ""]

NoMessage == [kind |-> "", summary |-> ""]

\* request.headers.get('authorization') of a request without the header: null
NoHeader == "null"

\* process.env.CRON_SECRET
CRON_SECRET == "secret"

\* the template string `Bearer ${process.env.CRON_SECRET}`
Bearer(secret) == "Bearer " \o secret

\* the Authorization headers a request may carry
Headers == {NoHeader, CRON_SECRET, Bearer("guess"), Bearer(CRON_SECRET)}

NoResult == [kind |-> "none", error |-> "", changed |-> FALSE, summary |-> ""]

IdleTask ==
  [kind |-> "idle", pc |-> "idle", now |-> 0, list |-> << >>, idx |-> 0,
   telegramSettings |-> NoSettings, website |-> NoWebsite,
   checkTime |-> 0, newContent |-> EmptyString, promptInput |-> << >>,
   output |-> << >>, rawHtml |-> EmptyString, authorization |-> NoHeader, payload |-> << >>, message |-> NoMessage, error |-> "",
   ret |-> NoResult, result |-> NoResult,
   websiteId |-> "none", fetched |-> {}, fetchedOk |-> {}, returned |-> {},
   written |-> {}, sent |-> << >>]

----------------------------------------------------------------------------
(* lib/firestore.ts *)

\* getWebsite: the document with its id, or null (here: NoWebsite)
getWebsite(id) ==
  IF id \in DOMAIN store THEN store[id] ELSE NoWebsite

\* getWebsitesToMonitor: every document of the collection; no filter on now
getWebsitesToMonitor(now) ==
  LET Present(id) == id \in DOMAIN store
      ids == SelectSeq(IdOrder, Present)
  IN [i \in 1..Len(ids) |-> store[ids[i]]]

\* getTelegramSettings
getTelegramSettings == settings

\* updateDoc: the fields of the payload replace the document's, the rest stay
Merge(doc, payload) ==
  [f \in DOMAIN doc |-> IF f \in DOMAIN payload THEN payload[f] ELSE doc[f]]

\* faulty variant: the write is not awaited, the caller goes on before it lands
updateWebsiteNotAwaited(id, payload) == store' = store

updateWebsite(id, payload) ==
  store' = [store EXCEPT ![id] = Merge(store[id], payload)]

----------------------------------------------------------------------------
(* monitorAllWebsites: the due test of the loop body, lines 229-245 *)

\* faulty variant: the interval is taken in seconds, not minutes
IntervalPassedSeconds(website, now) ==
  now - website.lastChecked >= website.checkInterval * 1000

IntervalPassed(website, now) ==
  LET lastCheckedTime == website.lastChecked
      intervalMillis == website.checkInterval * 60 * 1000
  IN now - lastCheckedTime >= intervalMillis

\* faulty variant: a website in status error is retried by every cycle
ShouldProcessRetriesErrors(website, now) ==
  IF website.status \in {"inactive", "error"} THEN TRUE ELSE IntervalPassed(website, now)

ShouldProcess(website, now) ==
  IF website.status = "inactive" THEN TRUE ELSE IntervalPassed(website, now)

\* the loop runs without an await over the websites it skips: the index of
\* the next website from position i on that is processed, Len(list)+1 if none
RECURSIVE NextProcessed(_, _, _)
NextProcessed(list, i, now) ==
  IF i > Len(list) THEN i
  ELSE IF ShouldProcess(list[i], now) THEN i
  ELSE NextProcessed(list, i + 1, now)

\* faulty variant: only a missing settings document counts, empty fields pass
SettingsMissingNullOnly(telegramSettings) == ~telegramSettings.exists

\* faulty variant: the settings test is missing, the cycle runs without settings
SettingsMissingNever(telegramSettings) == FALSE

\* the settings test of lines 215 and 258
SettingsMissing(telegramSettings) ==
  \/ ~telegramSettings.exists
  \/ telegramSettings.botToken = ""
  \/ telegramSettings.chatId = ""

----------------------------------------------------------------------------
(* How a task moves on *)

\* processWebsite(website, ...) is called: fetch is issued at once
CallProcessWebsite(task, website) ==
  [task EXCEPT !.pc = "fetch", !.website = website,
               !.checkTime = 0, !.newContent = EmptyString, !.promptInput = << >>,
               !.output = << >>, !.rawHtml = EmptyString, !.payload = << >>, !.message = NoMessage,
               !.error = "", !.ret = NoResult,
               !.fetched = @ \cup {website.id}]

\* the flow or the forced check ends: it returns, or an error leaves it
Finished(task, result) ==
  [task EXCEPT !.pc = "done", !.result = result]

Returned(ret) == [ret EXCEPT !.kind = "returned"]
Thrown(error) == [NoResult EXCEPT !.kind = "thrown", !.error = error]

\* the loop of monitorAllWebsites from position i on (lines 227-247)
ContinueLoop(task, i) ==
  LET next == NextProcessed(task.list, i, task.now)
  IN IF next > Len(task.list)
     THEN Finished([task EXCEPT !.idx = next], Returned(NoResult))
     ELSE CallProcessWebsite([task EXCEPT !.idx = next], task.list[next])

\* processWebsite returns ret to its caller
ProcessReturns(task, ret) ==
  LET back == [task EXCEPT !.returned = @ \cup {task.website.id}]
  IN IF task.kind = "bulk"
     THEN ContinueLoop(back, back.idx + 1)
     ELSE Finished(back, Returned(ret))

\* faulty variant: the error of processWebsite is swallowed, the caller gets
\* an empty outcome
ProcessThrowsSwallowed(task, error) == Finished(task, Returned(NoResult))

\* processWebsite throws: neither caller catches (lines 231, 241, 262)
ProcessThrows(task, error) == Finished(task, Thrown(error))

\* faulty variant: the catch block also resets the snapshot
EnterCatchClearsSnapshot(task, error) ==
  [task EXCEPT !.pc = "catch", !.error = error,
               !.payload = [status |-> "error", lastChecked |-> clock,
                            lastContent |-> EmptyString]]

\* faulty variant: the catch block records the time but not the status
EnterCatchKeepsStatus(task, error) ==
  [task EXCEPT !.pc = "catch", !.error = error,
               !.payload = [lastChecked |-> clock]]

\* the catch block of processWebsite is entered (lines 196-198): the error
\* write is issued with Timestamp.now()
EnterCatch(task, error) ==
  [task EXCEPT !.pc = "catch", !.error = error,
               !.payload = [status |-> "error", lastChecked |-> clock]]

----------------------------------------------------------------------------
(* The dashboard and the settings form *)

\* faulty variant: a new website is stored as active
AddWebsiteActive(id, checkInterval, selector) ==
  /\ id \in scope.ids
  /\ selector \in scope.selectors
  /\ id \notin DOMAIN store
  /\ store' = store @@ (id :>
       [id |-> id, checkInterval |-> checkInterval, selector |-> selector,
        status |-> "active", lastChecked |-> EpochZero,
        lastContent |-> EmptyString, lastUpdated |-> EpochZero,
        lastChangeSummary |-> ""])
  /\ UNCHANGED <<settings, clock, tasks, runs, scope, outbox>>

\* Dashboard.onSubmit, the add branch: addDoc of a new inactive website
AddWebsite(id, checkInterval, selector) ==
  /\ id \in scope.ids
  /\ selector \in scope.selectors
  /\ id \notin DOMAIN store
  /\ store' = store @@ (id :>
       [id |-> id, checkInterval |-> checkInterval, selector |-> selector,
        status |-> "inactive", lastChecked |-> EpochZero,
        lastContent |-> EmptyString, lastUpdated |-> EpochZero,
        lastChangeSummary |-> ""])
  /\ UNCHANGED <<settings, clock, tasks, runs, scope, outbox>>

\* Settings.handleSubmit: saveTelegramSettings({botToken, chatId}); a behaviour
\* saves the settings document once
SaveSettings(s) ==
  /\ ~settings.exists
  /\ settings' = s
  /\ UNCHANGED <<store, clock, tasks, runs, scope, outbox>>

\* time passes
Tick ==
  /\ clock + TickMillis <= MaxTicks * TickMillis
  /\ clock' = clock + TickMillis
  /\ UNCHANGED <<store, settings, tasks, runs, scope, outbox>>
 
----------------------------------------------------------------------------
(* Invocations *)

\* a new invocation takes the first free slot, while the scenario has
\* invocations and concurrency left
SlotFree(t) ==
  /\ runs < scope.runs
  /\ Cardinality({u \in Tasks : tasks[u].kind # "idle"}) < scope.inFlight
  /\ \E i \in 1..Len(TaskOrder) :
       /\ TaskOrder[i] = t
       /\ tasks[t].kind = "idle"
       /\ \A j \in 1..(i - 1) : tasks[TaskOrder[j]].kind # "idle"

----------------------------------------------------------------------------
(* monitorAllWebsites *)

\* the flow is invoked: now = new Date(), the collection read is issued
StartBulk(t, authHeader) ==
  /\ SlotFree(t)
  /\ tasks' = [tasks EXCEPT ![t] =
       [IdleTask EXCEPT !.kind = "bulk", !.pc = "list", !.now = clock,
                        !.authorization = authHeader]]
  /\ runs' = runs + 1
  /\ UNCHANGED <<store, settings, clock, scope, outbox>>

\* faulty variant: any request that carries an Authorization header passes
AuthorizedIfPresent(authHeader) == authHeader # NoHeader

\* route.ts line 10: the header is exactly "Bearer <secret>"
Authorized(authHeader) == authHeader = Bearer(CRON_SECRET)

\* route.ts line 11: the request is answered at once, no flow is invoked
Unauthorized(t, authHeader) ==
  /\ SlotFree(t)
  /\ tasks' = [tasks EXCEPT ![t] =
       Finished([IdleTask EXCEPT !.kind = "post", !.authorization = authHeader],
                [NoResult EXCEPT !.kind = "unauthorized"])]
  /\ runs' = runs + 1
  /\ UNCHANGED <<store, settings, clock, scope, outbox>>

\* POST /api/monitor: 401 unless the request is authorized, else the flow is
\* invoked and awaited
POST(t, authHeader) ==
  \/ ~Authorized(authHeader) /\ Unauthorized(t, authHeader)
  \/ Authorized(authHeader) /\ StartBulk(t, authHeader)

\* the response of POST to what the awaited flow did (lines 11, 18, 21)
Response(result) ==
  IF result.kind = "unauthorized" THEN [status |-> 401, success |-> FALSE]
  ELSE IF result.kind = "returned" THEN [status |-> 200, success |-> TRUE]
  ELSE [status |-> 500, success |-> FALSE]

\* websitesToCheck = await getWebsitesToMonitor(now)
BulkList(t) ==
  /\ tasks[t].kind = "bulk" /\ tasks[t].pc = "list"
  /\ tasks' = [tasks EXCEPT ![t] =
       [@ EXCEPT !.pc = "settings", !.list = getWebsitesToMonitor(tasks[t].now)]]
  /\ UNCHANGED <<store, settings, clock, runs, scope, outbox>>

\* telegramSettings = await getTelegramSettings(), the two early returns, and
\* the loop up to its first processWebsite
BulkSettings(t) ==
  /\ tasks[t].kind = "bulk" /\ tasks[t].pc = "settings"
  /\ LET task == [tasks[t] EXCEPT !.telegramSettings = getTelegramSettings]
     IN tasks' = [tasks EXCEPT ![t] =
          IF SettingsMissing(task.telegramSettings)
          THEN Finished(task, Returned(NoResult))
          ELSE IF Len(task.list) = 0
          THEN Finished(task, Returned(NoResult))
          ELSE ContinueLoop(task, 1)]
  /\ UNCHANGED <<store, settings, clock, runs, scope, outbox>>

----------------------------------------------------------------------------
(* monitorSingleWebsite *)

\* faulty variant: the null test after getWebsite is missing
NotFoundNever(website) == FALSE

\* line 254: getWebsite found nothing
NotFound(website) == website = NoWebsite

\* faulty variant: the forced check applies the due test of the bulk loop
ForcedCheckIfDue(task) ==
  IF ShouldProcess(task.website, clock)
  THEN CallProcessWebsite(task, task.website)
  ELSE Finished(task, Returned(NoResult))

\* line 262: the forced check hands the website to processWebsite, whatever
\* its status and lastChecked
ForcedCheck(task) == CallProcessWebsite(task, task.website)

\* website = await getWebsite(websiteId); throws when there is none
StartSingle(t, id) ==
  /\ SlotFree(t)
  /\ LET task == [IdleTask EXCEPT !.kind = "single", !.websiteId = id,
                                  !.website = getWebsite(id)]
     IN tasks' = [tasks EXCEPT ![t] =
          IF NotFound(task.website)
          THEN Finished(task, Thrown("Website not found"))
          ELSE [task EXCEPT !.pc = "settings"]]
  /\ runs' = runs + 1
  /\ UNCHANGED <<store, settings, clock, scope, outbox>>

\* telegramSettings = await getTelegramSettings(); throws when they are
\* missing, else calls processWebsite
SingleSettings(t) ==
  /\ tasks[t].kind = "single" /\ tasks[t].pc = "settings"
  /\ LET task == [tasks[t] EXCEPT !.telegramSettings = getTelegramSettings]
     IN tasks' = [tasks EXCEPT ![t] =
          IF SettingsMissing(task.telegramSettings)
          THEN Finished(task, Thrown("Telegram settings are not configured"))
          ELSE ForcedCheck(task)]
  /\ UNCHANGED <<store, settings, clock, runs, scope, outbox>>

----------------------------------------------------------------------------
(* processWebsite *)

\* the judgment's answer, kept with the task where the scenario inspects it
Kept(output) == IF scope.keepOutput THEN <<output>> ELSE << >>

\* faulty variant: a website in status error is observed afresh
IsFirstCheckOrError(website) ==
  website.status \in {"inactive", "error"} \/ website.lastContent = EmptyString

\* line 142: the first-check branch is taken
IsFirstCheck(website) ==
  website.status = "inactive" \/ website.lastContent = EmptyString

\* faulty variant: the equality test compares the truncated contents
FetchSucceedsComparesPrefixes(task, rawHtml) ==
  LET website == task.website
      newContent == extractContentBySelector(rawHtml, website.selector)
      now == clock
      got == [task EXCEPT !.rawHtml = rawHtml,
                          !.newContent = newContent, !.checkTime = now,
                          !.fetchedOk = @ \cup {website.id}]
  IN IF IsFirstCheck(website)
     THEN [got EXCEPT !.pc = "initialPrompt",
                      !.promptInput = <<Substring(newContent, PromptLimit)>>]
     ELSE IF Substring(website.lastContent, PromptLimit)
               # Substring(newContent, PromptLimit)
     THEN [got EXCEPT !.pc = "changePrompt",
                      !.promptInput = <<Substring(website.lastContent, PromptLimit),
                                        Substring(newContent, PromptLimit)>>]
     ELSE [got EXCEPT !.pc = "write",
                      !.payload = [lastChecked |-> now],
                      !.ret = [NoResult EXCEPT !.changed = FALSE,
                                               !.summary = "No changes detected."]]

\* faulty variant: a check that finds the content unchanged also moves lastUpdated
FetchSucceedsTouchesUpdated(task, rawHtml) ==
  LET website == task.website
      newContent == extractContentBySelector(rawHtml, website.selector)
      now == clock
      got == [task EXCEPT !.rawHtml = rawHtml,
                          !.newContent = newContent, !.checkTime = now,
                          !.fetchedOk = @ \cup {website.id}]
  IN IF IsFirstCheck(website)
     THEN [got EXCEPT !.pc = "initialPrompt",
                      !.promptInput = <<Substring(newContent, PromptLimit)>>]
     ELSE IF website.lastContent # newContent
     THEN [got EXCEPT !.pc = "changePrompt",
                      !.promptInput = <<Substring(website.lastContent, PromptLimit),
                                        Substring(newContent, PromptLimit)>>]
     ELSE [got EXCEPT !.pc = "write",
                      !.payload = [lastChecked |-> now, lastUpdated |-> now],
                      !.ret = [NoResult EXCEPT !.changed = FALSE,
                                               !.summary = "No changes detected."]]

\* lines 138-195 up to the next await, once the response is in and ok:
\* extract, take the time, and choose the branch
FetchSucceeds(task, rawHtml) ==
  LET website == task.website
      newContent == extractContentBySelector(rawHtml, website.selector)
      now == clock
      got == [task EXCEPT !.rawHtml = rawHtml,
                          !.newContent = newContent, !.checkTime = now,
                          !.fetchedOk = @ \cup {website.id}]
  IN IF IsFirstCheck(website)
     THEN [got EXCEPT !.pc = "initialPrompt",
                      !.promptInput = <<Substring(newContent, PromptLimit)>>]
     ELSE IF website.lastContent # newContent
     THEN [got EXCEPT !.pc = "changePrompt",
                      !.promptInput = <<Substring(website.lastContent, PromptLimit),
                                        Substring(newContent, PromptLimit)>>]
     ELSE [got EXCEPT !.pc = "write",
                      !.payload = [lastChecked |-> now],
                      !.ret = [NoResult EXCEPT !.changed = FALSE,
                                               !.summary = "No changes detected."]]

\* faulty variant: the first check stores the truncated content it showed the judgment
InitialAnsweredStoresPrefix(task, output) ==
  LET now == task.checkTime
      notify == output.flag /\ Truthy(output.summary)
      summary == IF output.flag THEN "Initial notice found: " \o output.summary
                 ELSE "Website activated. Monitoring will start on the next check."
      updatePayload ==
        [lastContent |-> Substring(task.newContent, PromptLimit),
         lastChecked |-> now, status |-> "active",
         lastUpdated |-> now,
         lastChangeSummary |->
           IF notify THEN output.summary ELSE "No notice found on first check."]
  IN [task EXCEPT !.pc = IF notify THEN "notify" ELSE "write",
                  !.output = Kept(output),
                  !.message = IF notify
                              THEN [kind |-> "Latest Notice", summary |-> output.summary]
                              ELSE NoMessage,
                  !.payload = updatePayload,
                  !.ret = [NoResult EXCEPT !.changed = output.flag, !.summary = summary]]

\* faulty variant: the first check activates the website only when a notice is found
InitialAnsweredActiveOnNotice(task, output) ==
  LET now == task.checkTime
      notify == output.flag /\ Truthy(output.summary)
      summary == IF output.flag THEN "Initial notice found: " \o output.summary
                 ELSE "Website activated. Monitoring will start on the next check."
      updatePayload ==
        [lastContent |-> task.newContent, lastChecked |-> now,
         status |-> IF notify THEN "active" ELSE task.website.status,
         lastUpdated |-> now,
         lastChangeSummary |->
           IF notify THEN output.summary ELSE "No notice found on first check."]
  IN [task EXCEPT !.pc = IF notify THEN "notify" ELSE "write",
                  !.output = Kept(output),
                  !.message = IF notify
                              THEN [kind |-> "Latest Notice", summary |-> output.summary]
                              ELSE NoMessage,
                  !.payload = updatePayload,
                  !.ret = [NoResult EXCEPT !.changed = output.flag, !.summary = summary]]

\* lines 149-167 up to the next await, once initialNoticePrompt has answered
InitialAnswered(task, output) ==
  LET now == task.checkTime
      notify == output.flag /\ Truthy(output.summary)
      summary == IF output.flag THEN "Initial notice found: " \o output.summary
                 ELSE "Website activated. Monitoring will start on the next check."
      updatePayload ==
        [lastContent |-> task.newContent, lastChecked |-> now, status |-> "active",
         lastUpdated |-> now,
         lastChangeSummary |->
           IF notify THEN output.summary ELSE "No notice found on first check."]
  IN [task EXCEPT !.pc = IF notify THEN "notify" ELSE "write",
                  !.output = Kept(output),
                  !.message = IF notify
                              THEN [kind |-> "Latest Notice", summary |-> output.summary]
                              ELSE NoMessage,
                  !.payload = updatePayload,
                  !.ret = [NoResult EXCEPT !.changed = output.flag, !.summary = summary]]

\* faulty variant: a flagged change is stored without moving lastUpdated
ChangeAnsweredKeepsUpdated(task, output) ==
  LET now == task.checkTime
  IN IF output.flag /\ Truthy(output.summary)
     THEN [task EXCEPT !.pc = "notify", !.output = Kept(output),
                       !.message = [kind |-> "New Notice", summary |-> output.summary],
                       !.payload = [lastContent |-> task.newContent, lastChecked |-> now,
                                    status |-> "active",
                                    lastChangeSummary |-> output.summary],
                       !.ret = [NoResult EXCEPT !.changed = TRUE,
                                                !.summary = output.summary]]
     ELSE [task EXCEPT !.pc = "write", !.output = Kept(output),
                       !.payload = [lastChecked |-> now, status |-> "active"],
                       !.ret = [NoResult EXCEPT !.changed = FALSE,
                                                !.summary = "No changes detected."]]

\* faulty variant: a difference the judgment does not flag still replaces the snapshot
ChangeAnsweredAdoptsContent(task, output) ==
  LET now == task.checkTime
  IN IF output.flag /\ Truthy(output.summary)
     THEN [task EXCEPT !.pc = "notify", !.output = Kept(output),
                       !.message = [kind |-> "New Notice", summary |-> output.summary],
                       !.payload = [lastContent |-> task.newContent, lastChecked |-> now,
                                    lastUpdated |-> now, status |-> "active",
                                    lastChangeSummary |-> output.summary],
                       !.ret = [NoResult EXCEPT !.changed = TRUE,
                                                !.summary = output.summary]]
     ELSE [task EXCEPT !.pc = "write", !.output = Kept(output),
                       !.payload = [lastContent |-> task.newContent,
                                    lastChecked |-> now, status |-> "active"],
                       !.ret = [NoResult EXCEPT !.changed = FALSE,
                                                !.summary = "No changes detected."]]

\* lines 177-191 up to the next await, once changeDetectionPrompt has answered
ChangeAnswered(task, output) ==
  LET now == task.checkTime
  IN IF output.flag /\ Truthy(output.summary)
     THEN [task EXCEPT !.pc = "notify", !.output = Kept(output),
                       !.message = [kind |-> "New Notice", summary |-> output.summary],
                       !.payload = [lastContent |-> task.newContent, lastChecked |-> now,
                                    lastUpdated |-> now, status |-> "active",
                                    lastChangeSummary |-> output.summary],
                       !.ret = [NoResult EXCEPT !.changed = TRUE,
                                                !.summary = output.summary]]
     ELSE [task EXCEPT !.pc = "write", !.output = Kept(output),
                       !.payload = [lastChecked |-> now, status |-> "active"],
                       !.ret = [NoResult EXCEPT !.changed = FALSE,
                                                !.summary = "No changes detected."]]

\* the pages the site may answer with now: any page of the scenario, or, in
\* the scenario of a single change, the first page until the first tick and
\* the second page ever after
Served ==
  IF scope.changesOnce
  THEN {IF clock = TickMillis THEN PageA ELSE PageB}
  ELSE scope.pages

\* await fetch(website.url): the request fails or answers non-2xx (both throw
\* into the catch block), or answers with a page
Fetch(t) ==
  /\ tasks[t].pc = "fetch"
  /\ \/ \E failure \in {"network error", "non-2xx response"} :
          tasks' = [tasks EXCEPT ![t] = EnterCatch(@, "Failed to fetch")]
     \/ \E rawHtml \in Served :
          tasks' = [tasks EXCEPT ![t] = FetchSucceeds(@, rawHtml)]
  /\ UNCHANGED <<store, settings, clock, runs, scope, outbox>>

\* await initialNoticePrompt(...): it throws or answers
InitialPrompt(t) ==
  /\ tasks[t].pc = "initialPrompt"
  /\ \/ tasks' = [tasks EXCEPT ![t] = EnterCatch(@, "Prompt failed")]
     \/ \E output \in PromptOutputs :
          tasks' = [tasks EXCEPT ![t] = InitialAnswered(@, output)]
  /\ UNCHANGED <<store, settings, clock, runs, scope, outbox>>

\* await changeDetectionPrompt(...): it throws or answers
ChangePrompt(t) ==
  /\ tasks[t].pc = "changePrompt"
  /\ \/ tasks' = [tasks EXCEPT ![t] = EnterCatch(@, "Prompt failed")]
     \/ \E output \in PromptOutputs :
          tasks' = [tasks EXCEPT ![t] = ChangeAnswered(@, output)]
  /\ UNCHANGED <<store, settings, clock, runs, scope, outbox>>

\* faulty variant: an exception of the transport escapes into the catch block
sendTelegramNotificationThrows(task, outcome) ==
  LET tried == [task EXCEPT !.sent = Append(@, [id |-> task.website.id,
                                   botToken |-> task.telegramSettings.botToken,
                                   chatId |-> task.telegramSettings.chatId,
                                   text |-> task.message,
                                   delivered |-> (outcome = "ok")])]
  IN IF outcome = "exception"
     THEN EnterCatch(tried, "Telegram failed")
     ELSE [tried EXCEPT !.pc = "write"]

\* sendTelegramNotification: whatever the API does, nothing is thrown
sendTelegramNotification(task, outcome) ==
  [task EXCEPT !.pc = "write",
               !.sent = Append(@, [id |-> task.website.id,
                                   botToken |-> task.telegramSettings.botToken,
                                   chatId |-> task.telegramSettings.chatId,
                                   text |-> task.message,
                                   delivered |-> (outcome = "ok")])]

\* what the Telegram API has been asked to send so far, where the scenario
\* keeps it
Asked(task, outcome) ==
  IF scope.keepSent
  THEN Append(outbox, [id |-> task.website.id, text |-> task.message,
                       delivered |-> (outcome = "ok")])
  ELSE outbox

Notify(t) ==
  /\ tasks[t].pc = "notify"
  /\ \E outcome \in {"ok", "not ok", "exception"} :
       /\ tasks' = [tasks EXCEPT ![t] = sendTelegramNotification(@, outcome)]
       /\ outbox' = Asked(tasks[t], outcome)
  /\ UNCHANGED <<store, settings, clock, runs, scope>>

\* await updateWebsite(website.id, payload) inside the try block: the write
\* lands and processWebsite returns, or it rejects into the catch block
Write(t) ==
  /\ tasks[t].pc = "write"
  /\ LET task == tasks[t]
     IN \/ /\ updateWebsite(task.website.id, task.payload)
           /\ tasks' = [tasks EXCEPT ![t] =
                ProcessReturns([task EXCEPT !.written = @ \cup {task.website.id}],
                               task.ret)]
        \/ /\ tasks' = [tasks EXCEPT ![t] = EnterCatch(task, "Write failed")]
           /\ UNCHANGED store
  /\ UNCHANGED <<settings, clock, runs, scope, outbox>>

\* await updateWebsite(website.id, {status: 'error', ...}) in the catch block,
\* then throw error; if the write rejects, its error is thrown instead
Catch(t) ==
  /\ tasks[t].pc = "catch"
  /\ LET task == tasks[t]
     IN \/ /\ updateWebsite(task.website.id, task.payload)
           /\ tasks' = [tasks EXCEPT ![t] =
                ProcessThrows([task EXCEPT !.written = @ \cup {task.website.id}],
                              task.error)]
        \/ /\ tasks' = [tasks EXCEPT ![t] = ProcessThrows(task, "Write failed")]
           /\ UNCHANGED store
  /\ UNCHANGED <<settings, clock, runs, scope, outbox>>

\* the caller has its answer; the task slot is free again
Finish(t) ==
  /\ tasks[t].pc = "done"
  /\ tasks' = [tasks EXCEPT ![t] = IdleTask]
  /\ UNCHANGED <<store, settings, clock, runs, scope, outbox>>

----------------------------------------------------------------------------

\* the state after deployment: no website, no settings document
Start ==
  /\ store = << >>
  /\ settings = NoSettings
  /\ clock = TickMillis
  /\ tasks = [t \in Tasks |-> IdleTask]
  /\ runs = 0
  /\ outbox = << >>

\* a scenario: the websites that are added, how many invocations may be in
\* flight and how many are started, what the environment offers, and what is
\* kept for inspection
Plain ==
  [ids |-> Ids, inFlight |-> 1, runs |-> MaxRuns,
   pages |-> Pages, selectors |-> Selectors,
   changesOnce |-> FALSE, keepOutput |-> FALSE, keepSent |-> FALSE]

\* two websites, one invocation at a time
Init == Start /\ scope = Plain

\* one website, one invocation at a time, more invocations
InitOne ==
  Start /\ scope = [Plain EXCEPT !.ids = {IdOrder[1]}, !.runs = MaxRunsOne,
                                 !.keepOutput = TRUE]

\* one website, two invocations may be in flight together
InitRace ==
  Start /\ scope = [Plain EXCEPT !.ids = {IdOrder[1]}, !.inFlight = 2,
                                 !.runs = MaxRunsRace]

\* one website, one invocation at a time, long and nested pages, every kind
\* of selector
InitText ==
  Start /\ scope = [Plain EXCEPT !.ids = {IdOrder[1]}, !.runs = MaxRunsText,
                                 !.pages = TextPages, !.selectors = TextSelectors]

\* one website whose page changes once, at the first tick, and then stays;
\* one invocation at a time; the requests to Telegram are kept
InitChange ==
  Start /\ scope = [Plain EXCEPT !.ids = {IdOrder[1]}, !.runs = MaxRunsChange,
                                 !.changesOnce = TRUE, !.keepSent = TRUE]

Next ==
  \/ \E id \in Ids, checkInterval \in Intervals, selector \in Selectors \cup TextSelectors :
       AddWebsite(id, checkInterval, selector)
  \/ \E s \in SavedSettings : SaveSettings(s)
  \/ Tick
  \/ \E t \in Tasks, authHeader \in Headers : POST(t, authHeader)
  \/ \E t \in Tasks : BulkList(t)
  \/ \E t \in Tasks : BulkSettings(t)
  \/ \E t \in Tasks, id \in Ids : StartSingle(t, id)
  \/ \E t \in Tasks : SingleSettings(t)
  \/ \E t \in Tasks : Fetch(t)
  \/ \E t \in Tasks : InitialPrompt(t)
  \/ \E t \in Tasks : ChangePrompt(t)
  \/ \E t \in Tasks : Notify(t)
  \/ \E t \in Tasks : Write(t)
  \/ \E t \in Tasks : Catch(t)
  \/ \E t \in Tasks : Finish(t)

Spec == Init /\ [][Next]_vars

SpecOne == InitOne /\ [][Next]_vars

SpecRace == InitRace /\ [][Next]_vars

SpecText == InitText /\ [][Next]_vars

SpecChange == InitChange /\ [][Next]_vars

----------------------------------------------------------------------------
(* Vocabulary of the properties *)

\* the websites an invocation has read: the list of a bulk cycle, the
\* website of a forced check
Inputs(t) ==
  IF tasks[t].kind = "bulk"
  THEN {tasks[t].list[i] : i \in 1..Len(tasks[t].list)}
  ELSE IF tasks[t].kind = "single" /\ tasks[t].website.id # "none"
  THEN {tasks[t].website}
  ELSE {}

\* the notifications an invocation dispatched for a website
SentFor(t, id) == {i \in 1..Len(tasks[t].sent) : tasks[t].sent[i].id = id}

\* the invocation did not touch the website: no fetch, no write, no notification
Untouched(t, id) ==
  /\ id \notin tasks[t].fetched
  /\ id \notin tasks[t].written
  /\ SentFor(t, id) = {}

\* "now - lastChecked >= checkInterval * 60 seconds", in milliseconds
Elapsed(w, now) == now - w.lastChecked >= w.checkInterval * 60000

\* "due": inactive, or the interval has elapsed
Due(w, now) == w.status = "inactive" \/ Elapsed(w, now)

\* "the notification settings are absent or botToken or chatId is empty"
Incomplete(s) == ~s.exists \/ s.botToken = "" \/ s.chatId = ""

\* the fetch of website id failed in invocation t
FetchFailed(t, id) ==
  /\ id \in tasks[t].fetched
  /\ id \notin tasks[t].fetchedOk
  /\ ~(tasks[t].pc = "fetch" /\ tasks[t].website.id = id)

\* the processing of website id in invocation t is over
ProcessingOver(t, id) ==
  /\ id \in tasks[t].fetched
  /\ \/ id \in tasks[t].returned
     \/ tasks[t].pc = "done"

----------------------------------------------------------------------------
(* C1 *)

\* C1 (as claimed): when the processing of a website throws in a bulk cycle,
\* every later due website of the cycle's list is still fetched and updated.
C1_FailureDoesNotStopCycle ==
  \A t \in Tasks :
    (tasks[t].kind = "bulk" /\ tasks[t].pc = "done" /\ tasks[t].result.kind = "thrown")
      => \A j \in (tasks[t].idx + 1)..Len(tasks[t].list) :
           Due(tasks[t].list[j], tasks[t].now)
             => tasks[t].list[j].id \in tasks[t].fetched

----------------------------------------------------------------------------
(* C2 *)

\* C2: a check whose fetch failed leaves the stored lastContent as it was
\* read before the check; lastContent differs from the value read only for
\* a website whose fetch succeeded in this invocation.
C2_SnapshotKeptOnFailedFetch ==
  \A t \in Tasks : \A w \in Inputs(t) :
    store[w.id].lastContent # w.lastContent => w.id \in tasks[t].fetchedOk

\* a check of a website with a stored snapshot is over, its fetch failed, the
\* error write landed
C2_Witness ==
  \E t \in Tasks : \E w \in Inputs(t) :
    /\ w.lastContent # EmptyString
    /\ FetchFailed(t, w.id)
    /\ tasks[t].pc = "done"
    /\ w.id \in tasks[t].written
    /\ store[w.id].lastContent = w.lastContent

----------------------------------------------------------------------------
(* C3 *)

\* C3 (as claimed): once a check whose fetch failed is over, the record has
\* status error and the time of the failure as lastChecked, and the check
\* dispatched no notification.
C3_FailedFetchPersistsError ==
  \A t \in Tasks : \A w \in Inputs(t) :
    (FetchFailed(t, w.id) /\ tasks[t].pc = "done")
      => /\ store[w.id].status = "error"
         /\ store[w.id].lastChecked = tasks[t].payload.lastChecked
         /\ SentFor(t, w.id) = {}

\* C3 (amended): a check whose fetch failed dispatches no notification and
\* issues one write, of status error and the time of the failure; when that
\* write lands the record has exactly these two fields replaced, when it is
\* rejected the record is as it was read.
C3_FailedFetchPersistsErrorIfWritten ==
  \A t \in Tasks : \A w \in Inputs(t) :
    (FetchFailed(t, w.id) /\ tasks[t].pc = "done")
      => /\ SentFor(t, w.id) = {}
         /\ tasks[t].result.kind = "thrown"
         /\ tasks[t].payload.lastChecked >= w.lastChecked
         /\ IF w.id \in tasks[t].written
            THEN store[w.id] = [w EXCEPT !.status = "error",
                                         !.lastChecked = tasks[t].payload.lastChecked]
            ELSE store[w.id] = w

\* the fetch of an active website failed and the error write landed
C3_Witness ==
  \E t \in Tasks : \E w \in Inputs(t) :
    /\ w.status = "active"
    /\ FetchFailed(t, w.id)
    /\ tasks[t].pc = "done"
    /\ w.id \in tasks[t].written
    /\ store[w.id].status = "error"
    /\ store[w.id].lastChecked > w.lastChecked

----------------------------------------------------------------------------
(* C4 *)

\* C4 (as claimed): once the processing of a website read as inactive is
\* over and its fetch succeeded, the record has status active.
C4_InactiveBecomesActive ==
  \A t \in Tasks : \A w \in Inputs(t) :
    (w.status = "inactive" /\ w.id \in tasks[t].fetchedOk /\ ProcessingOver(t, w.id))
      => store[w.id].status = "active"

\* C4 (amended): when the processing of a website read as inactive returns
\* (the fetch, the first-check judgment and the record write all succeeded),
\* the record has status active and the extracted content as lastContent,
\* whatever the page and the judgment's answer were; when the judgment or
\* the write throws instead, the record has status error or is as it was read.
C4_InactiveBecomesActiveOnReturn ==
  \A t \in Tasks : \A w \in Inputs(t) :
    (w.status = "inactive" /\ w.id \in tasks[t].fetchedOk /\ ProcessingOver(t, w.id))
      => IF w.id \in tasks[t].returned
         THEN store[w.id].status = "active"
         ELSE /\ tasks[t].result.kind = "thrown"
              /\ store[w.id].status \in {"error", "inactive"}
              /\ store[w.id].lastContent = w.lastContent

\* a forced check of an inactive website returned and left it active, and
\* the judgment had found no notice in the page
C4_Witness ==
  \E t \in Tasks : \E w \in Inputs(t) :
    /\ w.status = "inactive"
    /\ w.id \in tasks[t].returned
    /\ tasks[t].pc = "done"
    /\ ~tasks[t].result.changed
    /\ store[w.id].status = "active"

----------------------------------------------------------------------------
(* C5 *)

\* C5 (as claimed): when the check of a website read with status error
\* returns (fetch, extraction and judgment succeeded), the record has status
\* active.
C5_ErrorBecomesActive ==
  \A t \in Tasks : \A w \in Inputs(t) :
    (w.status = "error" /\ w.id \in tasks[t].returned)
      => store[w.id].status = "active"

----------------------------------------------------------------------------
(* C6 *)

\* C6 (as claimed): in a bulk cycle that has ended, with complete settings,
\* a website of the list was processed if and only if it was due at the
\* cycle's start time.
C6_ProcessedIffDue ==
  \A t \in Tasks :
    (tasks[t].kind = "bulk" /\ tasks[t].pc = "done"
       /\ ~Incomplete(tasks[t].telegramSettings))
      => \A w \in Inputs(t) : w.id \in tasks[t].fetched <=> Due(w, tasks[t].now)

\* what does hold of the loop: among the entries it has reached, exactly the
\* due ones were handed to processWebsite
LoopFollowsDue ==
  \A t \in Tasks :
    (tasks[t].kind = "bulk" /\ tasks[t].idx > 0)
      => \A i \in 1..Len(tasks[t].list) :
           i <= tasks[t].idx
             => (tasks[t].list[i].id \in tasks[t].fetched
                   <=> Due(tasks[t].list[i], tasks[t].now))

----------------------------------------------------------------------------
(* C7 *)

\* C7: a bulk cycle does not touch a website of its list that is not due at
\* the cycle's start time: no fetch, no write, no notification, and the
\* record is as the cycle read it.
C7_NotDueIsSkipped ==
  \A t \in Tasks :
    tasks[t].kind = "bulk"
      => \A w \in Inputs(t) :
           ~Due(w, tasks[t].now) => (Untouched(t, w.id) /\ store[w.id] = w)

\* a bulk cycle has ended that processed one website and skipped another,
\* checked half a minute before
C7_Witness ==
  \E t \in Tasks : \E w, v \in Inputs(t) :
    /\ tasks[t].kind = "bulk" /\ tasks[t].pc = "done"
    /\ w.status # "inactive"
    /\ tasks[t].now - w.lastChecked = TickMillis
    /\ Untouched(t, w.id)
    /\ v.id \in tasks[t].returned

----------------------------------------------------------------------------
(* C8 *)

\* C8: a bulk cycle that read absent or incomplete settings touches no
\* website: it ends without a fetch, a write or a notification, and every
\* record is as the cycle read it.
C8_NoSettingsNoCycle ==
  \A t \in Tasks :
    (tasks[t].kind = "bulk" /\ tasks[t].pc \notin {"list", "settings"}
       /\ Incomplete(tasks[t].telegramSettings))
      => /\ tasks[t].pc = "done"
         /\ tasks[t].fetched = {} /\ tasks[t].written = {} /\ tasks[t].sent = << >>
         /\ \A w \in Inputs(t) : store[w.id] = w

\* a bulk cycle ended at once although a website of its list was due: the
\* settings document exists but its chatId is empty
C8_Witness ==
  \E t \in Tasks : \E w \in Inputs(t) :
    /\ tasks[t].kind = "bulk" /\ tasks[t].pc = "done"
    /\ tasks[t].telegramSettings.exists
    /\ tasks[t].telegramSettings.chatId = ""
    /\ Due(w, tasks[t].now)
    /\ tasks[t].fetched = {}

----------------------------------------------------------------------------
(* C9 *)

\* C9: a forced check of an id that is not in the store throws "Website not
\* found"; a forced check of a stored website that read absent or incomplete
\* settings throws the settings error; neither fetches, writes or notifies.
C9_ForcedCheckErrors ==
  \A t \in Tasks :
    tasks[t].kind = "single"
      => /\ tasks[t].websiteId \notin DOMAIN store
              => /\ tasks[t].pc = "done"
                 /\ tasks[t].result = Thrown("Website not found")
                 /\ tasks[t].fetched = {} /\ tasks[t].written = {}
                 /\ tasks[t].sent = << >>
         /\ (tasks[t].websiteId \in DOMAIN store /\ tasks[t].website.id # "none"
               /\ tasks[t].pc # "settings" /\ Incomplete(tasks[t].telegramSettings))
              => /\ tasks[t].pc = "done"
                 /\ tasks[t].result = Thrown("Telegram settings are not configured")
                 /\ tasks[t].fetched = {} /\ tasks[t].written = {}
                 /\ tasks[t].sent = << >>
                 /\ store[tasks[t].websiteId] = tasks[t].website

\* a forced check of a stored website has thrown the settings error: the
\* settings document exists but its chatId is empty
C9_Witness ==
  \E t \in Tasks :
    /\ tasks[t].kind = "single" /\ tasks[t].pc = "done"
    /\ tasks[t].websiteId \in DOMAIN store
    /\ tasks[t].telegramSettings.exists
    /\ tasks[t].telegramSettings.chatId = ""
    /\ tasks[t].result.error = "Telegram settings are not configured"

----------------------------------------------------------------------------
(* C10 *)

\* C10: a forced check that found its website and read complete settings has
\* called processWebsite for it (the fetch is issued), whether or not the
\* website is due.
C10_ForcedCheckBypassesDue ==
  \A t \in Tasks :
    (tasks[t].kind = "single" /\ tasks[t].website.id # "none"
       /\ tasks[t].pc # "settings" /\ ~Incomplete(tasks[t].telegramSettings))
      => tasks[t].websiteId \in tasks[t].fetched

\* a forced check fetched a website that was checked at this very instant
\* and is not due
C10_Witness ==
  \E t \in Tasks :
    /\ tasks[t].kind = "single"
    /\ tasks[t].website.status = "active"
    /\ ~Due(tasks[t].website, clock)
    /\ tasks[t].websiteId \in tasks[t].fetchedOk

----------------------------------------------------------------------------
(* Vocabulary of the properties about one check *)

\* the invocation is over and the fetch of the website it processed last
\* had succeeded
CheckOver(t) ==
  /\ tasks[t].pc = "done"
  /\ tasks[t].website.id \in tasks[t].fetchedOk

\* that check returned an outcome to its caller
CheckReturned(t) == tasks[t].website.id \in tasks[t].returned

\* the website was read with a stored snapshot and the check extracted the
\* same content / another content
SameContent(t) ==
  /\ tasks[t].website.lastContent # EmptyString
  /\ tasks[t].newContent = tasks[t].website.lastContent

OtherContent(t) ==
  /\ tasks[t].website.lastContent # EmptyString
  /\ tasks[t].newContent # tasks[t].website.lastContent

\* the judgment answered, and flagged a change with a non-empty summary /
\* answered without a flag
Flagged(t) ==
  /\ tasks[t].output # << >>
  /\ tasks[t].output[1].flag /\ Truthy(tasks[t].output[1].summary)

NotFlagged(t) ==
  /\ tasks[t].output # << >>
  /\ ~tasks[t].output[1].flag

\* the check threw because a record write was rejected; the record kept its
\* snapshot and is as it was read or marked error
WriteRejected(t) ==
  LET w == tasks[t].website
  IN /\ tasks[t].result.kind = "thrown"
     /\ tasks[t].result.error = "Write failed"
     /\ store[w.id].lastContent = w.lastContent
     /\ store[w.id].lastUpdated = w.lastUpdated
     /\ store[w.id].status \in {"error", w.status}

----------------------------------------------------------------------------
(* C11 *)

\* C11 (as claimed): when an active website with a stored snapshot is checked
\* and the extracted content equals the snapshot, the check returns
\* changed = false, the record differs from the one read only in lastChecked,
\* which is the check time, the judgment was not invoked and nothing was sent.
C11_IdenticalContentIsUnchanged ==
  \A t \in Tasks :
    (CheckOver(t) /\ tasks[t].website.status = "active" /\ SameContent(t))
      => LET w == tasks[t].website
         IN /\ CheckReturned(t)
            /\ ~tasks[t].ret.changed
            /\ store[w.id] = [w EXCEPT !.lastChecked = tasks[t].checkTime]
            /\ tasks[t].promptInput = << >>
            /\ SentFor(t, w.id) = {}

\* C11 (amended): such a check never invokes the judgment and never sends;
\* when its record write succeeds it returns changed = false and the record
\* differs from the one read only in lastChecked, which is the check time;
\* when the write is rejected the check throws, lastContent and lastUpdated
\* are still kept, and the record is marked error if the error write lands.
C11_IdenticalContentIsUnchangedIfWritten ==
  \A t \in Tasks :
    (CheckOver(t) /\ tasks[t].website.status = "active" /\ SameContent(t))
      => LET w == tasks[t].website
         IN /\ tasks[t].promptInput = << >>
            /\ tasks[t].output = << >>
            /\ SentFor(t, w.id) = {}
            /\ IF CheckReturned(t)
               THEN /\ ~tasks[t].ret.changed
                    /\ store[w.id] = [w EXCEPT !.lastChecked = tasks[t].checkTime]
               ELSE WriteRejected(t)

\* a second check of an active website found the same content, returned,
\* and moved lastChecked forward
C11_Witness ==
  \E t \in Tasks :
    /\ CheckOver(t) /\ CheckReturned(t)
    /\ tasks[t].website.status = "active" /\ SameContent(t)
    /\ store[tasks[t].website.id].lastChecked > tasks[t].website.lastChecked
    /\ store[tasks[t].website.id].lastUpdated = tasks[t].website.lastUpdated

----------------------------------------------------------------------------
(* C12 *)

\* C12 (as claimed): when a website with a stored snapshot is checked, the
\* extracted content differs and the judgment flags a change with a non-empty
\* summary, the check returns changed = true with that summary, exactly one
\* notification carrying the summary was dispatched, and the record has the
\* new content, lastChecked = lastUpdated = the check time and status active.
C12_FlaggedChangeIsStoredAndSent ==
  \A t \in Tasks :
    (CheckOver(t) /\ OtherContent(t) /\ Flagged(t))
      => LET w == tasks[t].website
             summary == tasks[t].output[1].summary
         IN /\ CheckReturned(t)
            /\ tasks[t].ret.changed /\ tasks[t].ret.summary = summary
            /\ Cardinality(SentFor(t, w.id)) = 1
            /\ \A i \in SentFor(t, w.id) : tasks[t].sent[i].text.summary = summary
            /\ store[w.id].lastContent = tasks[t].newContent
            /\ store[w.id].lastChecked = tasks[t].checkTime
            /\ store[w.id].lastUpdated = tasks[t].checkTime
            /\ store[w.id].status = "active"

\* C12 (amended): such a check dispatches exactly one notification carrying
\* the summary; when its record write succeeds it returns changed = true with
\* the summary and the record has the new content, lastChecked = lastUpdated
\* = the check time and status active; when the write is rejected the check
\* throws and the record keeps the old snapshot.
C12_FlaggedChangeIsStoredIfWritten ==
  \A t \in Tasks :
    (CheckOver(t) /\ OtherContent(t) /\ Flagged(t))
      => LET w == tasks[t].website
             summary == tasks[t].output[1].summary
         IN /\ Cardinality(SentFor(t, w.id)) = 1
            /\ \A i \in SentFor(t, w.id) : tasks[t].sent[i].text.summary = summary
            /\ IF CheckReturned(t)
               THEN /\ tasks[t].ret.changed /\ tasks[t].ret.summary = summary
                    /\ store[w.id].lastContent = tasks[t].newContent
                    /\ store[w.id].lastChecked = tasks[t].checkTime
                    /\ store[w.id].lastUpdated = tasks[t].checkTime
                    /\ store[w.id].status = "active"
               ELSE WriteRejected(t)

\* a check found other content, the judgment flagged it, the check returned
\* and the record carries the new snapshot and a later lastUpdated
C12_Witness ==
  \E t \in Tasks :
    /\ CheckOver(t) /\ CheckReturned(t) /\ OtherContent(t) /\ Flagged(t)
    /\ store[tasks[t].website.id].lastContent = tasks[t].newContent
    /\ store[tasks[t].website.id].lastUpdated > tasks[t].website.lastUpdated

----------------------------------------------------------------------------
(* C13 *)

\* C13 (as claimed): when the extracted content differs from the stored
\* snapshot and the judgment does not flag a change, the check returns
\* changed = false, nothing was sent, lastContent and lastUpdated are as they
\* were read and lastChecked is the check time.
C13_UnflaggedDifferenceIsUnchanged ==
  \A t \in Tasks :
    (CheckOver(t) /\ OtherContent(t) /\ NotFlagged(t))
      => LET w == tasks[t].website
         IN /\ CheckReturned(t)
            /\ ~tasks[t].ret.changed
            /\ SentFor(t, w.id) = {}
            /\ store[w.id].lastContent = w.lastContent
            /\ store[w.id].lastUpdated = w.lastUpdated
            /\ store[w.id].lastChecked = tasks[t].checkTime

\* C13 (amended): such a check sends nothing and leaves lastContent and
\* lastUpdated as they were read; when its record write succeeds it returns
\* changed = false and lastChecked is the check time; when the write is
\* rejected the check throws.
C13_UnflaggedDifferenceIsUnchangedIfWritten ==
  \A t \in Tasks :
    (CheckOver(t) /\ OtherContent(t) /\ NotFlagged(t))
      => LET w == tasks[t].website
         IN /\ SentFor(t, w.id) = {}
            /\ store[w.id].lastContent = w.lastContent
            /\ store[w.id].lastUpdated = w.lastUpdated
            /\ IF CheckReturned(t)
               THEN /\ ~tasks[t].ret.changed
                    /\ store[w.id].lastChecked = tasks[t].checkTime
               ELSE WriteRejected(t)

\* a check found other content, the judgment answered without a flag, the
\* check returned and the old snapshot is still stored
C13_Witness ==
  \E t \in Tasks :
    /\ CheckOver(t) /\ CheckReturned(t) /\ OtherContent(t) /\ NotFlagged(t)
    /\ ~tasks[t].output[1].null
    /\ store[tasks[t].website.id].lastContent # tasks[t].newContent
    /\ store[tasks[t].website.id].lastChecked > tasks[t].website.lastChecked

----------------------------------------------------------------------------
(* C14 *)

\* processWebsite is running in the invocation: its record has been read and
\* its write has not been answered yet
InProcess(t) ==
  tasks[t].pc \in {"fetch", "initialPrompt", "changePrompt", "notify", "write", "catch"}

\* C14 (as claimed): no two invocations are processing the same website id
\* at the same time, and the record an invocation is processing is still the
\* one it read: no other check has written it since.
C14_ProcessingSerialized ==
  /\ \A t, u \in Tasks :
       (t # u /\ InProcess(t) /\ InProcess(u))
         => tasks[t].website.id # tasks[u].website.id
  /\ \A t \in Tasks :
       InProcess(t) => store[tasks[t].website.id] = tasks[t].website

----------------------------------------------------------------------------
(* C15 *)

\* the invocation dispatched a notification for the website it is processing
\* and the transport failed (exception or non-ok reply)
SendFailed(t) ==
  \E i \in SentFor(t, tasks[t].website.id) : ~tasks[t].sent[i].delivered

\* the update a notifying check persists: the new snapshot, both timestamps
\* at the check time, status active and the summary that was sent
NotifiedUpdate(t) ==
  [lastContent |-> tasks[t].newContent, lastChecked |-> tasks[t].checkTime,
   lastUpdated |-> tasks[t].checkTime, status |-> "active",
   lastChangeSummary |-> tasks[t].message.summary]

\* C15: after a failed send the check goes on to the same record write as
\* after a successful one; when that write lands the check returns changed =
\* true and the record is the one read with the notified update applied,
\* status active; the check throws, and the record is marked error, only
\* when the record write itself is rejected.
C15_SendFailureNotPropagated ==
  \A t \in Tasks :
    SendFailed(t)
      => LET w == tasks[t].website
         IN /\ tasks[t].pc \in {"write", "catch", "done"}
            /\ tasks[t].pc = "write"
                 => (tasks[t].payload = NotifiedUpdate(t) /\ tasks[t].error = ""
                       /\ tasks[t].ret.changed)
            /\ tasks[t].pc = "catch" => tasks[t].error = "Write failed"
            /\ tasks[t].pc = "done"
                 => IF CheckReturned(t)
                    THEN /\ tasks[t].ret.changed
                         /\ store[w.id] = Merge(w, NotifiedUpdate(t))
                    ELSE /\ tasks[t].result = Thrown("Write failed")
                         /\ store[w.id].status \in {"error", w.status}

\* a check whose send failed has returned, and the record carries the new
\* snapshot with status active
C15_Witness ==
  \E t \in Tasks :
    /\ SendFailed(t)
    /\ tasks[t].pc = "done" /\ CheckReturned(t)
    /\ tasks[t].website.lastContent # tasks[t].newContent
    /\ store[tasks[t].website.id].lastContent = tasks[t].newContent
    /\ store[tasks[t].website.id].status = "active"

----------------------------------------------------------------------------
(* C16 *)

\* C16 (as claimed): status inactive means that no check of the website has
\* completed successfully.  A website read as inactive has had no successful
\* check; once its processing is over it is still inactive exactly if this
\* check did not complete successfully either.
C16_InactiveIffNeverSucceeded ==
  \A t \in Tasks : \A w \in Inputs(t) :
    (w.status = "inactive" /\ ProcessingOver(t, w.id))
      => (store[w.id].status = "inactive" <=> w.id \notin tasks[t].returned)

\* C16 (amended): status inactive means that no check has written the record:
\* an inactive record is as the add operation made it, a record is inactive
\* exactly if its lastChecked is still epoch zero, and a website read as
\* inactive is still inactive after its processing exactly if neither the
\* update nor the error write of that check landed.
C16_InactiveIffNeverWritten ==
  /\ \A id \in DOMAIN store :
       /\ store[id].status = "inactive" <=> store[id].lastChecked = EpochZero
       /\ store[id].status = "inactive"
            => /\ store[id].lastContent = EmptyString
               /\ store[id].lastUpdated = EpochZero
  /\ \A t \in Tasks : \A w \in Inputs(t) :
       (w.status = "inactive" /\ ProcessingOver(t, w.id))
         => (store[w.id].status = "inactive" <=> w.id \notin tasks[t].written)

\* the only check of a website so far has failed, and the website is error
C16_Witness ==
  \E t \in Tasks : \E w \in Inputs(t) :
    /\ runs = 1
    /\ w.status = "inactive"
    /\ tasks[t].pc = "done" /\ tasks[t].result.kind = "thrown"
    /\ w.id \in tasks[t].written
    /\ store[w.id].status = "error"
    /\ store[w.id].lastUpdated = EpochZero

----------------------------------------------------------------------------
(* C17 *)

\* a check fails at the step that enters the catch block: the error write it
\* issues carries the time of the failure
FailureIsStamped ==
  \A t \in Tasks :
    (tasks[t].pc # "catch" /\ tasks'[t].pc = "catch")
      => tasks'[t].payload = [status |-> "error", lastChecked |-> clock]

\* once the error write has landed the record has status error and the time
\* of the failure as lastChecked
ErrorRecordKeepsFailureTime ==
  \A t \in Tasks :
    (tasks[t].pc = "done" /\ tasks[t].result.kind = "thrown"
       /\ tasks[t].website.id \in tasks[t].written)
      => /\ store[tasks[t].website.id].status = "error"
         /\ store[tasks[t].website.id].lastChecked = tasks[t].payload.lastChecked

\* a bulk cycle that starts less than checkInterval minutes after the
\* lastChecked of a record in status error does not fetch it
ErrorWaitsForInterval ==
  \A t \in Tasks :
    tasks[t].kind = "bulk"
      => \A w \in Inputs(t) :
           (w.status = "error"
              /\ tasks[t].now < w.lastChecked + w.checkInterval * 60 * 1000)
             => w.id \notin tasks[t].fetched

----------------------------------------------------------------------------
(* C18 *)

\* C18 (as claimed): a bulk cycle that read absent or incomplete settings
\* still runs: when it has ended every due website of its list was fetched,
\* and nothing was sent.
C18_CycleRunsWithoutSettings ==
  \A t \in Tasks :
    (tasks[t].kind = "bulk" /\ tasks[t].pc = "done"
       /\ Incomplete(tasks[t].telegramSettings))
      => /\ \A w \in Inputs(t) : Due(w, tasks[t].now) => w.id \in tasks[t].fetched
         /\ tasks[t].sent = << >>

\* C18 (amended): a bulk cycle that read absent or incomplete settings
\* returns to its caller without an error, has sent nothing, and has fetched
\* none of the due websites of its list: their records are as the cycle read
\* them.
C18_CycleAbortsWithoutSettings ==
  \A t \in Tasks :
    (tasks[t].kind = "bulk" /\ tasks[t].pc = "done"
       /\ Incomplete(tasks[t].telegramSettings))
      => /\ tasks[t].result = Returned(NoResult)
         /\ tasks[t].sent = << >>
         /\ \A w \in Inputs(t) :
              Due(w, tasks[t].now)
                => (w.id \notin tasks[t].fetched /\ store[w.id] = w)

\* a bulk cycle found no settings document and returned, leaving a new
\* website inactive
C18_Witness ==
  \E t \in Tasks : \E w \in Inputs(t) :
    /\ tasks[t].kind = "bulk" /\ tasks[t].pc = "done"
    /\ ~tasks[t].telegramSettings.exists
    /\ tasks[t].result.kind = "returned"
    /\ w.status = "inactive"
    /\ store[w.id].status = "inactive"

----------------------------------------------------------------------------
(* C19 *)

\* C19 (as claimed): whenever an invocation has dispatched a notification
\* for the website it is processing, the record write of that check has
\* already landed.
C19_PersistBeforeNotify ==
  \A t \in Tasks :
    SentFor(t, tasks[t].website.id) # {}
      => tasks[t].website.id \in tasks[t].written

----------------------------------------------------------------------------
(* C20 *)

\* C20: when processWebsite has returned or thrown, no record write of the
\* check is still under way and every write that was accepted is in the
\* store: after a return the record is the one read with the update of the
\* check applied; after a throw it is the one read with the error write
\* applied, or the one read if the store rejected that write.
C20_WriteVisibleOnReturn ==
  \A t \in Tasks :
    (tasks[t].pc = "done" /\ tasks[t].website.id \in tasks[t].fetched)
      => LET w == tasks[t].website
         IN IF CheckReturned(t)
            THEN /\ w.id \in tasks[t].written
                 /\ "lastChecked" \in DOMAIN tasks[t].payload
                 /\ store[w.id] = Merge(w, tasks[t].payload)
            ELSE /\ tasks[t].result.kind = "thrown"
                 /\ tasks[t].payload = [status |-> "error",
                                        lastChecked |-> tasks[t].payload.lastChecked]
                 /\ store[w.id] = IF w.id \in tasks[t].written
                                  THEN Merge(w, tasks[t].payload)
                                  ELSE w

\* a forced check has returned changed = true and the store already holds
\* the new snapshot
C20_Witness ==
  \E t \in Tasks :
    /\ tasks[t].kind = "single" /\ tasks[t].pc = "done"
    /\ tasks[t].result.kind = "returned" /\ tasks[t].result.changed
    /\ tasks[t].newContent # tasks[t].website.lastContent
    /\ store[tasks[t].website.id].lastContent = tasks[t].newContent
    /\ store[tasks[t].website.id].lastChecked = tasks[t].checkTime

----------------------------------------------------------------------------
(* C21 *)

\* the judgment call of the check threw, on the first-observation path (one
\* input) or on the changed path (two inputs)
JudgmentFailed(t) ==
  /\ tasks[t].pc = "done"
  /\ tasks[t].error = "Prompt failed"
  /\ tasks[t].website.id \in tasks[t].fetchedOk

\* C21 (as claimed): when the judgment call of a check has thrown, the record
\* has status error and the failure time as lastChecked, lastContent and
\* lastUpdated are as they were read, nothing was sent, and the judgment's
\* error was thrown to the caller.
C21_JudgmentFailureMarksError ==
  \A t \in Tasks :
    JudgmentFailed(t)
      => LET w == tasks[t].website
         IN /\ store[w.id] = [w EXCEPT !.status = "error",
                                       !.lastChecked = tasks[t].payload.lastChecked]
            /\ SentFor(t, w.id) = {}
            /\ tasks[t].result = Thrown("Prompt failed")

\* C21 (amended): when the judgment call of a check has thrown, nothing was
\* sent, lastContent and lastUpdated are as they were read and an error is
\* thrown to the caller; when the error write lands the record has status
\* error and the failure time as lastChecked and the judgment's error is the
\* one thrown; when the error write is rejected the record is as it was read
\* and the error of the write is thrown.
C21_JudgmentFailureMarksErrorIfWritten ==
  \A t \in Tasks :
    JudgmentFailed(t)
      => LET w == tasks[t].website
         IN /\ SentFor(t, w.id) = {}
            /\ tasks[t].output = << >>
            /\ tasks[t].payload.lastChecked >= tasks[t].checkTime
            /\ IF w.id \in tasks[t].written
               THEN /\ store[w.id] = [w EXCEPT !.status = "error",
                                        !.lastChecked = tasks[t].payload.lastChecked]
                    /\ tasks[t].result = Thrown("Prompt failed")
               ELSE /\ store[w.id] = w
                    /\ tasks[t].result = Thrown("Write failed")

\* the change judgment of a check of an active website threw: the record is
\* error, with the old snapshot
C21_Witness ==
  \E t \in Tasks :
    /\ JudgmentFailed(t)
    /\ Len(tasks[t].promptInput) = 2
    /\ tasks[t].website.status = "active"
    /\ tasks[t].newContent # tasks[t].website.lastContent
    /\ store[tasks[t].website.id].status = "error"
    /\ store[tasks[t].website.id].lastContent = tasks[t].website.lastContent

----------------------------------------------------------------------------
(* Vocabulary of the properties about content *)

\* the check took the first-observation path: the first-check judgment was
\* called, with one content
FirstPath(t) == Len(tasks[t].promptInput) = 1

\* p is made of the first characters of s
IsPrefixOf(p, s) ==
  /\ Len(p) <= Len(s)
  /\ \A i \in 1..Len(p) :
       IF i < Len(p) THEN p[i] = s[i]
       ELSE /\ [p[i] EXCEPT !.n = 0] = [s[i] EXCEPT !.n = 0]
            /\ 1 <= p[i].n /\ p[i].n <= s[i].n

\* p is the first n characters of s, all of s when s is shorter
FirstChars(p, s, n) ==
  /\ IsPrefixOf(p, s)
  /\ StrLen(p) = IF StrLen(s) <= n THEN StrLen(s) ELSE n

----------------------------------------------------------------------------
(* C22 *)

\* C22 (as claimed): a check whose fetch succeeded takes the
\* first-observation path exactly if the website was read inactive or with
\* an empty lastContent; once such a check is over the record has the whole
\* extracted content as lastContent (the raw page when there is no selector),
\* status active and lastChecked = lastUpdated = the check time.
C22_FirstObservationStoresContent ==
  \A t \in Tasks :
    tasks[t].website.id \in tasks[t].fetchedOk
      => LET w == tasks[t].website
         IN /\ FirstPath(t) <=> (w.status = "inactive" \/ w.lastContent = EmptyString)
            /\ (FirstPath(t) /\ tasks[t].pc = "done")
                 => /\ store[w.id].lastContent = tasks[t].newContent
                    /\ w.selector = NoSelector
                         => store[w.id].lastContent = tasks[t].rawHtml
                    /\ store[w.id].status = "active"
                    /\ store[w.id].lastChecked = tasks[t].checkTime
                    /\ store[w.id].lastUpdated = tasks[t].checkTime

\* C22 (amended): the path is taken exactly in the claimed case; when the
\* check on that path returns (the judgment answered and the record write
\* landed) the record has the whole extracted content, status active and
\* both timestamps at the check time; when the judgment or the write threw
\* the record keeps the lastContent and lastUpdated it had.
C22_FirstObservationStoresContentOnReturn ==
  \A t \in Tasks :
    tasks[t].website.id \in tasks[t].fetchedOk
      => LET w == tasks[t].website
         IN /\ FirstPath(t) <=> (w.status = "inactive" \/ w.lastContent = EmptyString)
            /\ (FirstPath(t) /\ tasks[t].pc = "done")
                 => IF CheckReturned(t)
                    THEN /\ store[w.id].lastContent = tasks[t].newContent
                         /\ w.selector = NoSelector
                              => store[w.id].lastContent = tasks[t].rawHtml
                         /\ store[w.id].status = "active"
                         /\ store[w.id].lastChecked = tasks[t].checkTime
                         /\ store[w.id].lastUpdated = tasks[t].checkTime
                    ELSE /\ tasks[t].result.kind = "thrown"
                         /\ store[w.id].lastContent = w.lastContent
                         /\ store[w.id].lastUpdated = w.lastUpdated

\* the first check of a website without selector returned, and the record
\* holds the raw page, which is longer than what the judgment was shown
C22_Witness ==
  \E t \in Tasks :
    /\ tasks[t].pc = "done" /\ CheckReturned(t) /\ FirstPath(t)
    /\ tasks[t].website.selector = NoSelector
    /\ store[tasks[t].website.id].lastContent = tasks[t].rawHtml
    /\ StrLen(store[tasks[t].website.id].lastContent) > PromptLimit
    /\ StrLen(tasks[t].promptInput[1]) = PromptLimit

----------------------------------------------------------------------------
(* C23 *)

\* C23: in a check that does not take the first-observation path the change
\* judgment is called exactly if the whole extracted content differs from
\* the whole stored lastContent, and it is called with the first PromptLimit
\* characters of the stored content and the first PromptLimit characters of
\* the extracted content.
C23_TwoTierComparison ==
  \A t \in Tasks :
    (tasks[t].website.id \in tasks[t].fetchedOk /\ ~FirstPath(t))
      => LET w == tasks[t].website
         IN /\ tasks[t].promptInput # << >> <=> tasks[t].newContent # w.lastContent
            /\ tasks[t].promptInput # << >>
                 => /\ Len(tasks[t].promptInput) = 2
                    /\ FirstChars(tasks[t].promptInput[1], w.lastContent, PromptLimit)
                    /\ FirstChars(tasks[t].promptInput[2], tasks[t].newContent, PromptLimit)

\* the stored and the extracted content are longer than PromptLimit and
\* differ only after it: the judgment was called, with two equal inputs
C23_Witness ==
  \E t \in Tasks :
    /\ tasks[t].website.id \in tasks[t].fetchedOk
    /\ Len(tasks[t].promptInput) = 2
    /\ tasks[t].newContent # tasks[t].website.lastContent
    /\ StrLen(tasks[t].newContent) > PromptLimit
    /\ tasks[t].promptInput[1] = tasks[t].promptInput[2]

----------------------------------------------------------------------------
(* C24 *)

\* the three forms of a selector: "#" id, "." class, tag name
Hit(tok, selector) ==
  /\ tok.k = "open"
  /\ \/ selector = <<"#", tok.id>>
     \/ selector = <<".", tok.cls>>
     \/ selector = <<tok.tag>>

\* every element opened in s is closed in s, and nothing else is closed
RECURSIVE Balanced(_, _)
Balanced(s, depth) ==
  IF s = << >> THEN depth = 0
  ELSE IF Head(s).k = "open" THEN Balanced(Tail(s), depth + 1)
  ELSE IF Head(s).k = "close" THEN depth > 0 /\ Balanced(Tail(s), depth - 1)
  ELSE Balanced(Tail(s), depth)

\* out is the inner content of the element opened at position i of html
InnerOf(out, html, i) ==
  \E j \in (i + 1)..Len(html) :
    /\ html[j].k = "close"
    /\ out = SubSeq(html, i + 1, j - 1)
    /\ Balanced(out, 0)

\* C24: extraction never fails a check, and what it yields is the raw page
\* when the selector is empty, when the selector engine rejects the selector
\* and when no element matches; when elements match it is the inner content
\* of the first of them in document order.
C24_ExtractionDegradesToDocument ==
  \A t \in Tasks :
    tasks[t].website.id \in tasks[t].fetchedOk
      => LET html == tasks[t].rawHtml
             selector == tasks[t].website.selector
             out == tasks[t].newContent
             hits == {i \in 1..Len(html) : Hit(html[i], selector)}
         IN /\ tasks[t].error \in {"", "Prompt failed", "Write failed"}
            /\ IF selector = NoSelector \/ selector = BadSelector \/ hits = {}
               THEN out = html
               ELSE \E i \in hits :
                      /\ \A h \in hits : i <= h
                      /\ InnerOf(out, html, i)

\* a page with elements of the same name inside each other was fetched for a
\* website selected by id: the content is the inner element with the element
\* it contains, not the page
C24_Witness ==
  \E t \in Tasks :
    /\ tasks[t].website.id \in tasks[t].fetchedOk
    /\ tasks[t].rawHtml = PageNested
    /\ tasks[t].website.selector = <<"#", "board">>
    /\ Len(tasks[t].newContent) = 4
    /\ tasks[t].newContent # tasks[t].rawHtml

----------------------------------------------------------------------------
(* C25 *)

\* C25: a request to the trigger endpoint whose Authorization header is not
\* exactly "Bearer secret" is answered 401 at once and invokes no flow: it
\* reads no list, fetches, writes and sends nothing; every bulk cycle was
\* started by a request with exactly that header.
C25_OnlyAuthorizedStartsCycle ==
  \A t \in Tasks :
    /\ tasks[t].kind = "bulk" => tasks[t].authorization = "Bearer secret"
    /\ tasks[t].kind = "post"
         => /\ tasks[t].authorization # "Bearer secret"
            /\ tasks[t].pc = "done"
            /\ Response(tasks[t].result) = [status |-> 401, success |-> FALSE]
            /\ tasks[t].list = << >> /\ tasks[t].website = NoWebsite
            /\ tasks[t].fetched = {} /\ tasks[t].written = {}
            /\ tasks[t].sent = << >>

\* a request with a bearer token that is not the secret was answered 401
\* while a due website was waiting in the store
C25_Witness ==
  \E t \in Tasks :
    /\ tasks[t].kind = "post"
    /\ tasks[t].authorization = "Bearer guess"
    /\ Response(tasks[t].result).status = 401
    /\ \E id \in DOMAIN store : store[id].status = "inactive"
    /\ ~Incomplete(settings)

----------------------------------------------------------------------------
(* C26 *)

\* the requests to Telegram that announce a change of the website
ChangeNotices(id) ==
  {i \in 1..Len(outbox) : outbox[i].id = id /\ outbox[i].text.kind = "New Notice"}

\* C26 (as claimed): the page of the website changes once and then stays as
\* it is; whatever checks follow one another, at most one notification of a
\* change is dispatched for the website.
C26_OneNotificationPerChange ==
  \A id \in DOMAIN store : Cardinality(ChangeNotices(id)) <= 1

----------------------------------------------------------------------------
(* C27 *)

\* C27 (as claimed): in every state, also when checks of one website
\* overlap, every record has lastUpdated <= lastChecked.
C27_UpdatedNotAfterChecked ==
  \A id \in DOMAIN store : store[id].lastUpdated <= store[id].lastChecked

----------------------------------------------------------------------------
(* C28 *)

\* a check of the website has completed the first-observation path before:
\* lastUpdated is written by that path and, later, by the changed path only
ObservedBefore(w) == w.lastUpdated # EpochZero

----------------------------------------------------------------------------
(* C29 *)

\* C29 (as claimed): a check that has returned reports changed = true
\* exactly if it invoked the notification transport.
C29_ChangedIffNotified ==
  \A t \in Tasks :
    (tasks[t].pc = "done" /\ CheckReturned(t))
      => (tasks[t].ret.changed <=> SentFor(t, tasks[t].website.id) # {})

----------------------------------------------------------------------------
(* C30 *)

\* C30 (as claimed): the trigger endpoint answers with the success envelope
\* only for a cycle that read complete settings and from whose processing
\* every due website of its list returned.
C30_SuccessMeansProcessed ==
  \A t \in Tasks :
    (tasks[t].kind = "bulk" /\ tasks[t].pc = "done"
       /\ Response(tasks[t].result).success)
      => /\ ~Incomplete(tasks[t].telegramSettings)
         /\ \A w \in Inputs(t) :
              Due(w, tasks[t].now) => w.id \in tasks[t].returned

====
